---- MODULE Spec2Model ----
(***************************************************************************)
(* Client-side authentication state and API-interceptor flow:              *)
(*   - the zustand auth store (user, token, isAuthenticated) wrapped in    *)
(*     the persist middleware (localStorage key "auth-storage"),           *)
(*   - the localStorage key "auth_token" read by the axios client,         *)
(*   - the axios request / response interceptors,                          *)
(*   - the useLogin / useSignup / useLogout mutations and a useQuery hook, *)
(*   - the TanStack query cache, and window.location.                      *)
(* Scheduling is single-threaded and event-driven: every event handler and *)
(* every promise continuation chain runs to completion, so one action is   *)
(* one handler together with everything it calls.                          *)
(***************************************************************************)
EXTENDS Bags, FiniteSets, Integers, Sequences, TLC

\* ---------------------------------------------------------------- bounds
\* at most this many gateway requests are in flight at once
MaxInflight == 2

\* ---------------------------------------------------------------- values
\* null / undefined / a missing localStorage key
Absent == "<absent>"
\* identity records returned by the remote API (opaque to the code)
Users == {"u1", "u2"}
\* bearer tokens returned by the remote API (non-empty strings)
Tokens == {"abc", "xyz"}
\* query keys of the server-data cache
Keys == {"users", "users/42/posts"}
\* no Authorization header on the request
NoHeader == "<none>"
\* the object a transport error carries: error.response is undefined
NoResponse == 0
\* HTTP status of a successful response
StatusOk == 200
\* HTTP status the response interceptor reacts to
StatusUnauthorized == 401
\* error statuses the remote API answers with
ErrorStatuses == {401, 500}
\* every way a request can settle
Outcomes == {StatusOk, NoResponse} \cup ErrorStatuses
\* hooks that send requests through the gateway
Kinds == {"login", "signup", "logout", "query"}
LoginPath == "/login"
HomePath == "/"

VARIABLES
    isBrowser,        \* typeof window !== "undefined"
    user,             \* store: user
    token,            \* store: token
    isAuthenticated,  \* store: isAuthenticated
    authToken,        \* localStorage["auth_token"]
    snapshot,         \* localStorage["auth-storage"] (persist middleware)
    cache,            \* keys of the entries of the query cache
    location,         \* window.location.href
    inflight,         \* bag of requests sent and not yet settled
    last              \* the handler that ran last, with what it saw and did

vars == <<isBrowser, user, token, isAuthenticated, authToken, snapshot,
          cache, location, inflight, last>>

\* the mutable state as one record, so that handlers compose; navs and clears
\* count the navigations and the cache clears of the handler that is running
Cur == [user |-> user, token |-> token, isAuthenticated |-> isAuthenticated,
        authToken |-> authToken, snapshot |-> snapshot, cache |-> cache,
        location |-> location, inflight |-> inflight,
        navs |-> 0, clears |-> 0]

NoSnapshot == [exists |-> FALSE, user |-> Absent, token |-> Absent,
               isAuthenticated |-> FALSE]

\* ------------------------------------------------------------ auth store
\* partialize: the part of the store the persist middleware writes
partialize(S) == [exists |-> TRUE, user |-> S.user, token |-> S.token,
                  isAuthenticated |-> S.isAuthenticated]

\* set() of a store that is not persisted: the in-memory update only
set_noPersist(S, u, t, a) ==
    [S EXCEPT !.user = u, !.token = t, !.isAuthenticated = a]

\* set() of the persisted store: the in-memory update, then the write of the
\* partialized state under "auth-storage" (no storage outside the browser)
set(S, u, t, a) ==
    LET M == [S EXCEPT !.user = u, !.token = t, !.isAuthenticated = a]
    IN IF isBrowser THEN [M EXCEPT !.snapshot = partialize(M)] ELSE M

\* the steps of setAuth in the other order: set() first, then localStorage
setAuth_steps_memoryFirst(S, u, t) ==
    LET S1 == set(S, u, t, TRUE)
    IN <<S, S1, IF isBrowser THEN [S1 EXCEPT !.authToken = t] ELSE S1>>

\* the states setAuth goes through: the state it starts in, the state after
\* localStorage.setItem("auth_token", token), the state after set()
setAuth_steps(S, u, t) ==
    LET S1 == IF isBrowser THEN [S EXCEPT !.authToken = t] ELSE S
    IN <<S, S1, set(S1, u, t, TRUE)>>

\* the states logout goes through: the state it starts in, the state after
\* localStorage.removeItem("auth_token"), the state after set()
logout_steps(S) ==
    LET S1 == IF isBrowser THEN [S EXCEPT !.authToken = Absent] ELSE S
    IN <<S, S1, set(S1, Absent, Absent, FALSE)>>

\* setAuth that leaves the token of the store as it was
setAuth_staleToken(S, u, t) ==
    LET S1 == IF isBrowser THEN [S EXCEPT !.authToken = t] ELSE S
    IN set(S1, u, S.token, TRUE)

\* setAuth without the localStorage.setItem("auth_token", token)
setAuth_noSetItem(S, u, t) == set(S, u, t, TRUE)

\* setAuth that writes localStorage without the typeof window check
setAuth_noBrowserCheck(S, u, t) ==
    set([S EXCEPT !.authToken = t], u, t, TRUE)

\* setAuth that keeps the user it already has and takes only the new token
setAuth_keepsUser(S, u, t) ==
    LET S1 == IF isBrowser THEN [S EXCEPT !.authToken = t] ELSE S
    IN set(S1, IF S.user # Absent THEN S.user ELSE u, t, TRUE)

setAuth(S, u, t) == setAuth_steps(S, u, t)[3]

\* logout that does not clear the user
logout_keepsUser(S) ==
    LET S1 == IF isBrowser THEN [S EXCEPT !.authToken = Absent] ELSE S
    IN set(S1, S.user, Absent, FALSE)

\* logout without the localStorage.removeItem("auth_token")
logout_noRemoveItem(S) == set(S, Absent, Absent, FALSE)

\* logout that toggles the flag instead of clearing it
logout_toggle(S) ==
    LET S1 == IF isBrowser THEN [S EXCEPT !.authToken = Absent] ELSE S
    IN set(S1, Absent, Absent, ~S.isAuthenticated)

logout(S) == logout_steps(S)[3]

\* rehydration of the store when the module is loaded: the initial state
\* merged with the persisted snapshot, if there is one
rehydrate(S) ==
    IF isBrowser /\ S.snapshot.exists
    THEN [S EXCEPT !.user = S.snapshot.user, !.token = S.snapshot.token,
                   !.isAuthenticated = S.snapshot.isAuthenticated]
    ELSE [S EXCEPT !.user = Absent, !.token = Absent,
                   !.isAuthenticated = FALSE]

\* --------------------------------------------------------------- gateway
\* the value of the Authorization header for a token
Bearer(t) == "Bearer " \o t

\* request interceptor that takes the token of the store, not of localStorage
requestInterceptor_storeToken(S) ==
    IF isBrowser
    THEN LET t == S.token
         IN IF t # Absent /\ t # "" THEN "Bearer " \o t ELSE NoHeader
    ELSE NoHeader

\* request interceptor that sends the token without the "Bearer " scheme
requestInterceptor_rawToken(S) ==
    IF isBrowser
    THEN LET t == S.authToken
         IN IF t # Absent /\ t # "" THEN t ELSE NoHeader
    ELSE NoHeader

\* request interceptor: the Authorization header of the outgoing request
\* (`if (token)`: null and the empty string attach nothing)
requestInterceptor(S) ==
    IF isBrowser
    THEN LET t == S.authToken
         IN IF t # Absent /\ t # "" THEN Bearer(t) ELSE NoHeader
    ELSE NoHeader

\* a settled promise, as the caller of the gateway sees it
Fulfilled(value) == [state |-> "fulfilled", value |-> value]
Rejected(error) == [state |-> "rejected", value |-> error]

\* response interceptor, success handler: (response) => response
responseFulfilled(response) == Fulfilled(response)

\* error handler that forces the logout on every error response
responseErrorEffect_anyStatus(S, error) ==
    IF error # NoResponse /\ isBrowser
    THEN [S EXCEPT !.authToken = Absent, !.location = LoginPath,
                   !.navs = @ + 1]
    ELSE S

\* error handler that forces the logout only when a token is stored
responseErrorEffect_onlyWithToken(S, error) ==
    IF error = StatusUnauthorized /\ isBrowser /\ S.authToken # Absent
    THEN [S EXCEPT !.authToken = Absent, !.location = LoginPath,
                   !.navs = @ + 1]
    ELSE S

\* response interceptor, error handler: its side effects
\* error handler that navigates on a 401 but leaves the stored token alone
responseErrorEffect_keepsToken(S, error) ==
    IF error = StatusUnauthorized /\ isBrowser
    THEN [S EXCEPT !.location = LoginPath, !.navs = @ + 1]
    ELSE S

responseErrorEffect(S, error) ==
    IF error = StatusUnauthorized /\ isBrowser
    THEN [S EXCEPT !.authToken = Absent, !.location = LoginPath,
                   !.navs = @ + 1]
    ELSE S

\* error handler that rejects a 401 with a new error, not the original one
responseErrorResult_newError(error) ==
    IF error = StatusUnauthorized THEN Rejected(NoResponse)
    ELSE Rejected(error)

\* response interceptor, error handler: the promise it returns
responseErrorResult(error) == Rejected(error)

\* ----------------------------------------------------------- query cache
Detach(r) == IF r.kind = "query" THEN [r EXCEPT !.detached = TRUE] ELSE r

\* queryClient.clear(): every query is removed from the cache and destroyed,
\* so a fetch still in flight no longer stores its result
clear(S) ==
    LET B == S.inflight
        D == {Detach(r) : r \in BagToSet(B)}
        n(e) == BagCardinality([r \in {q \in BagToSet(B) : Detach(q) = e}
                                   |-> B[r]])
    IN [S EXCEPT !.cache = {}, !.clears = @ + 1,
                 !.inflight = [e \in D |-> n(e)]]

\* ----------------------------------------------------------------- hooks
\* onSuccess that also clears the query cache
useLogin_onSuccess_clears(S, data) ==
    clear(setAuth(S, data.user, data.token))

useLogin_onSuccess(S, data) == setAuth(S, data.user, data.token)

\* onSuccess that drops the response when the store has been logged out
\* since the page was loaded
useSignup_onSuccess_dropStale(S, data) ==
    IF S.snapshot.exists /\ ~S.isAuthenticated THEN S
    ELSE setAuth(S, data.user, data.token)

useSignup_onSuccess(S, data) == setAuth(S, data.user, data.token)

\* onSuccess without the queryClient.clear()
useLogout_onSuccess_noClear(S) == logout(S)

useLogout_onSuccess(S) == clear(logout(S))

\* onError that only clears the cache
useLogout_onError_noLogout(S) == clear(S)

\* onError that also sends the browser to the login page
useLogout_onError_redirects(S) ==
    [clear(logout(S)) EXCEPT !.location = LoginPath, !.navs = @ + 1]

useLogout_onError(S) == clear(logout(S))

\* useQuery: the fetched data is stored under the query key, unless the
\* query was removed from the cache while the request was in flight
useQuery_onSuccess(S, r) ==
    IF r.detached THEN S ELSE [S EXCEPT !.cache = @ \cup {r.key}]

\* mutationFn that logs out locally before it posts to /auth/logout
mutationFn_optimistic(S, r) ==
    LET S1 == IF r.kind = "logout" THEN clear(logout(S)) ELSE S
    IN [S1 EXCEPT !.inflight = @ (+) SetToBag({r})]

\* mutationFn / queryFn up to its await: the request r is handed to the
\* gateway and the hook suspends; nothing else is touched before the answer
mutationFn(S, r) == [S EXCEPT !.inflight = @ (+) SetToBag({r})]

\* which callback of the hook runs for a settled promise
handlerOf(kind, promise) ==
    IF promise.state = "fulfilled" THEN "onSuccess"
    ELSE IF kind = "logout" THEN "onError" ELSE "none"

\* continuation in which every hook, not only useLogout, logs out on error
continuation_logoutOnError(S, r, promise) ==
    IF promise.state = "fulfilled"
    THEN CASE r.kind = "login"  -> setAuth(S, promise.value.user,
                                            promise.value.token)
           [] r.kind = "signup" -> setAuth(S, promise.value.user,
                                            promise.value.token)
           [] r.kind = "logout" -> clear(logout(S))
           [] OTHER             -> IF r.detached THEN S
                                   ELSE [S EXCEPT !.cache = @ \cup {r.key}]
    ELSE clear(logout(S))

\* continuation in which a fulfilled logout runs onSuccess and then onError
continuation_bothHandlers(S, r, promise) ==
    IF promise.state = "fulfilled"
    THEN CASE r.kind = "login"  -> useLogin_onSuccess(S, promise.value)
           [] r.kind = "signup" -> useSignup_onSuccess(S, promise.value)
           [] r.kind = "logout" -> useLogout_onError(useLogout_onSuccess(S))
           [] OTHER             -> useQuery_onSuccess(S, r)
    ELSE CASE r.kind = "logout" -> useLogout_onError(S)
           [] OTHER             -> S

\* the continuation of the hook once the gateway promise has settled
continuation(S, r, promise) ==
    IF promise.state = "fulfilled"
    THEN CASE r.kind = "login"  -> useLogin_onSuccess(S, promise.value)
           [] r.kind = "signup" -> useSignup_onSuccess(S, promise.value)
           [] r.kind = "logout" -> useLogout_onSuccess(S)
           [] OTHER             -> useQuery_onSuccess(S, r)
    ELSE CASE r.kind = "logout" -> useLogout_onError(S)
           [] OTHER             -> S

NoData == [user |-> Absent, token |-> Absent]

\* what the gateway hands to the caller for a settled request
gateway(S, out, data) ==
    IF out = StatusOk
    THEN [S |-> S, promise |-> responseFulfilled(data)]
    ELSE [S |-> responseErrorEffect(S, out),
          promise |-> responseErrorResult(out)]

\* --------------------------------------------------------------- actions
\* the record of a handler that ran: its inputs, what the caller got, what it
\* did (S is the state it left) and what the state was when it started
Event(act, kind, hdr, out, data, promise, handler, S) ==
    [act |-> act, kind |-> kind, hdr |-> hdr, outcome |-> out,
     user |-> data.user, token |-> data.token,
     state |-> promise.state, error |-> promise.value,
     handler |-> handler, navs |-> S.navs, clears |-> S.clears,
     preAuth |-> isAuthenticated, preToken |-> authToken, preCache |-> cache]

NoPromise == [state |-> "none", value |-> NoResponse]

Apply(S) ==
    /\ user' = S.user
    /\ token' = S.token
    /\ isAuthenticated' = S.isAuthenticated
    /\ authToken' = S.authToken
    /\ snapshot' = S.snapshot
    /\ cache' = S.cache
    /\ location' = S.location
    /\ inflight' = S.inflight
    /\ UNCHANGED isBrowser

Init ==
    /\ isBrowser \in BOOLEAN
    /\ user = Absent
    /\ token = Absent
    /\ isAuthenticated = FALSE
    /\ authToken = Absent
    /\ snapshot = NoSnapshot
    /\ cache = {}
    /\ location = HomePath
    /\ inflight = EmptyBag
    /\ last = Event("Init", Absent, NoHeader, NoResponse, NoData, NoPromise,
                    "none", Cur)

\* a hook sends its request: the request interceptor runs and the request
\* leaves; a query whose fetch is already in flight is not sent again
Send(kind, key) ==
    /\ BagCardinality(inflight) < MaxInflight
    /\ (kind = "query") = (key # Absent)
    /\ \A r \in BagToSet(inflight) :
           ~(r.kind = "query" /\ r.key = key /\ ~r.detached)
    /\ LET hdr == requestInterceptor(Cur)
           r == [kind |-> kind, hdr |-> hdr, key |-> key, detached |-> FALSE]
           S == mutationFn(Cur, r)
       IN /\ Apply(S)
          /\ last' = Event("Send", kind, hdr, NoResponse, NoData, NoPromise,
                           "none", S)

\* a request settles: the response interceptor runs, then the hook's
\* continuation on the promise the interceptor returned
Settle(r, out, data) ==
    /\ BagIn(r, inflight)
    /\ (data # NoData) = (out = StatusOk /\ r.kind \in {"login", "signup"})
    /\ LET S0 == [Cur EXCEPT !.inflight = @ (-) SetToBag({r})]
           g == gateway(S0, out, IF out = StatusOk THEN data ELSE NoData)
           S == continuation(g.S, r, g.promise)
       IN /\ Apply(S)
          /\ last' = Event("Settle", r.kind, r.hdr, out, data,
                           [state |-> g.promise.state,
                            value |-> IF out = StatusOk THEN StatusOk
                                      ELSE g.promise.value],
                           handlerOf(r.kind, g.promise), S)

\* the Logout button of the header calls the store's logout() directly
HeaderLogout ==
    /\ isBrowser
    /\ isAuthenticated
    /\ LET S == logout(Cur)
       IN /\ Apply(S)
          /\ last' = Event("HeaderLogout", Absent, NoHeader, NoResponse,
                           NoData, NoPromise, "none", S)

\* the page is loaded again (a reload, or the hard navigation taking place):
\* memory is rebuilt, the store rehydrates from its snapshot, requests of
\* the old page are never handled
PageLoad ==
    /\ isBrowser
    /\ LET S == rehydrate([Cur EXCEPT !.cache = {}, !.inflight = EmptyBag])
       IN /\ Apply(S)
          /\ last' = Event("PageLoad", Absent, NoHeader, NoResponse,
                           NoData, NoPromise, "none", S)

Next ==
    \/ \E kind \in Kinds, key \in Keys \cup {Absent} : Send(kind, key)
    \/ \E r \in BagToSet(inflight), out \in Outcomes,
          data \in [user : Users, token : Tokens] \cup {NoData} :
              Settle(r, out, data)
    \/ HeaderLogout
    \/ PageLoad

Spec == Init /\ [][Next]_vars

\* some request of hook `kind` settles
SettleKind(kind) ==
    \E r \in BagToSet(inflight), out \in Outcomes,
       data \in [user : Users, token : Tokens] \cup {NoData} :
           r.kind = kind /\ Settle(r, out, data)

\* the event loop with a network that answers: every request that stays in
\* flight is eventually settled (by a response or by a transport error) and
\* its handlers run. The client sets no timeout, so this is the most the
\* network can be assumed to give; a page load may still come first.
FairSpec == Spec /\ \A kind \in Kinds : WF_vars(SettleKind(kind))

TypeOK ==
    /\ isBrowser \in BOOLEAN
    /\ user \in Users \cup {Absent}
    /\ token \in Tokens \cup {Absent}
    /\ isAuthenticated \in BOOLEAN
    /\ authToken \in Tokens \cup {Absent}
    /\ cache \subseteq Keys
    /\ location \in {HomePath, LoginPath}
    /\ BagCardinality(inflight) <= MaxInflight

\* ---------------------------------------------------------------- claims
\* a login or signup settled successfully
LoginSucceeded ==
    /\ last.act = "Settle"
    /\ last.kind \in {"login", "signup"}
    /\ last.outcome = StatusOk

\* a logout operation settled (with any outcome)
LogoutSettled == last.act = "Settle" /\ last.kind = "logout"

\* a request settled with a 401 in the browser
Forced401 ==
    /\ isBrowser
    /\ last.act = "Settle"
    /\ last.outcome = StatusUnauthorized

\* the handler that ran last wrote the store or the credential store
Mutating ==
    \/ last.act = "HeaderLogout"
    \/ LoginSucceeded
    \/ LogoutSettled
    \/ Forced401

\* C1: in every reachable state isAuthenticated is true iff user and token
\* are both present, and user is present iff token is.
InvC1 ==
    /\ isAuthenticated <=> (user # Absent /\ token # Absent)
    /\ (user = Absent) <=> (token = Absent)

\* a session set up by a login over an earlier session, and a session ended
\* by the header's logout
WitC1 ==
    \/ LoginSucceeded /\ last.preAuth /\ isAuthenticated
    \/ last.act = "HeaderLogout" /\ ~isAuthenticated /\ user = Absent

\* C2: in the browser, after a request that was sent with a stored token is
\* answered with 401, the durable token is gone, isAuthenticated is false, a
\* navigation to the login path was issued and the caller got a rejection.
CexC2 ==
    (Forced401 /\ last.hdr # NoHeader) =>
        /\ authToken = Absent
        /\ isAuthenticated = FALSE
        /\ last.navs >= 1 /\ location = LoginPath
        /\ last.state = "rejected"

\* C3: in the browser, after a mutating operation (setAuth, logout, the
\* forced logout on 401) the durable token equals the token of the store.
CexC3 == (isBrowser /\ Mutating) => authToken = token

\* C4: once a logout operation has settled, with any outcome, the session is
\* fully unauthenticated, the durable token is absent and the cache is empty.
InvC4 ==
    LogoutSettled =>
        /\ user = Absent
        /\ token = Absent
        /\ isAuthenticated = FALSE
        /\ authToken = Absent
        /\ cache = {}

\* a logout that failed, in the browser, from an authenticated session with
\* a token stored and a populated cache
WitC4 ==
    /\ LogoutSettled
    /\ isBrowser
    /\ last.outcome # StatusOk
    /\ last.preAuth
    /\ last.preToken # Absent
    /\ last.preCache = Keys

\* C5: after a successful login or signup the store holds exactly the
\* returned user and token with isAuthenticated true, and (where durable
\* storage exists) the token key holds exactly that token.
InvC5 ==
    LoginSucceeded =>
        /\ user = last.user
        /\ token = last.token
        /\ isAuthenticated = TRUE
        /\ isBrowser => authToken = last.token

\* a signup in the browser that replaced another token
WitC5 ==
    /\ LoginSucceeded
    /\ isBrowser
    /\ last.kind = "signup"
    /\ last.preToken \notin {Absent, last.token}

\* C6: from every reachable state and for every identity u and token t, the
\* store after setAuth(u, t) reads user = u, token = t, isAuthenticated.
InvC6 ==
    \A u \in Users, t \in Tokens :
        LET S == setAuth(Cur, u, t)
        IN S.user = u /\ S.token = t /\ S.isAuthenticated = TRUE

\* setAuth has run on a session that held another user and another token
WitC6 ==
    /\ LoginSucceeded
    /\ last.preAuth
    /\ last.preToken \notin {Absent, token}
    /\ snapshot.exists /\ snapshot.user # Absent
    /\ user = last.user

\* C7: after the store's logout() the token key of the credential store
\* reads absent, whatever the state before.
InvC7 ==
    /\ logout(Cur).authToken = Absent
    /\ last.act = "HeaderLogout" => authToken = Absent

\* the header's logout has run while a token was stored
WitC7 == last.act = "HeaderLogout" /\ last.preToken # Absent

\* the in-memory session of S is the logged-out one
LoggedOut(S) == S.user = Absent /\ S.token = Absent /\ ~S.isAuthenticated

\* C8 as stated: logout twice equals logout once, and a logout that runs on
\* a logged-out session changes nothing, in memory or in durable storage.
CexC8 ==
    /\ [](logout(logout(Cur)) = logout(Cur))
    /\ [][(LogoutSettled' /\ LoggedOut(Cur)) =>
              UNCHANGED <<user, token, isAuthenticated, authToken,
                          snapshot>>]_vars

\* C8 amended: logout twice equals logout once; on a logged-out session
\* logout leaves memory and the token key unchanged, and changes the
\* persisted snapshot only by writing the logged-out state it stands for.
ThmC8 ==
    LET S == Cur
        L == logout(S)
    IN /\ logout(L) = L
       /\ LoggedOut(S) =>
            /\ LoggedOut(L)
            /\ L.authToken = S.authToken
            /\ [L EXCEPT !.snapshot = S.snapshot] = S
            /\ rehydrate(L) = L
            /\ S.snapshot.exists => L = S

\* logout has run on a session that was already logged out
WitC8 ==
    /\ LogoutSettled
    /\ isBrowser
    /\ ~last.preAuth
    /\ last.preToken = Absent
    /\ LoggedOut(Cur)

\* C9: every request that fails is rejected to its caller with the original
\* error, in the browser and outside it; no failure runs a success handler.
InvC9 ==
    (last.act = "Settle" /\ last.outcome # StatusOk) =>
        /\ last.state = "rejected"
        /\ last.error = last.outcome
        /\ last.handler # "onSuccess"

\* a 401 in the browser that forced the logout and was still rejected
WitC9 ==
    /\ Forced401
    /\ last.navs = 1
    /\ last.preToken # Absent
    /\ last.state = "rejected"

\* C10: the request that was just sent carries "Bearer <token>" for the token
\* in the credential store iff one is there, no header otherwise, and it is
\* on its way.
InvC10 ==
    last.act = "Send" =>
        /\ authToken # Absent => last.hdr = "Bearer " \o authToken
        /\ authToken = Absent => last.hdr = NoHeader
        /\ \E r \in BagToSet(inflight) :
               r.kind = last.kind /\ r.hdr = last.hdr

\* a request sent with a token, and one sent after a forced logout while the
\* store still holds a token
WitC10 ==
    /\ last.act = "Send"
    /\ \/ last.hdr = "Bearer xyz"
       \/ isBrowser /\ last.hdr = NoHeader /\ token # Absent

\* a login or signup settled with a failure
LoginFailed ==
    /\ last.act = "Settle"
    /\ last.kind \in {"login", "signup"}
    /\ last.outcome # StatusOk

CexC12 ==
    [][(isAuthenticated /\ ~isAuthenticated') => cache' = {}]_vars

CexC14 ==
    /\ LogoutSettled => last.clears = 1
    /\ Forced401 => last.clears = 1

\* C14 amended: clear() runs exactly once for each logout operation that
\* settles, and not at all when any other request settles, a 401 included.
ThmC14 ==
    /\ LogoutSettled => last.clears = 1
    /\ (last.act = "Settle" /\ last.kind # "logout") => last.clears = 0

\* a query answered with 401 in the browser: the forced logout ran and the
\* cache still holds its entries
WitC14 ==
    /\ Forced401
    /\ last.kind = "query"
    /\ last.navs = 1
    /\ last.preCache # {}
    /\ cache = last.preCache

\* user, token and isAuthenticated of a state record
Session(S) == <<S.user, S.token, S.isAuthenticated>>

\* the handler that ran last called the store's setAuth or logout
StoreWritten ==
    \/ LoginSucceeded
    \/ LogoutSettled
    \/ last.act = "HeaderLogout"

\* C15: after setAuth or logout, rebuilding the store from the persisted
\* snapshot gives the user, token and flag that are in memory, and a page
\* load leaves all three as they were.
ThmC15 ==
    /\ []((isBrowser /\ StoreWritten) =>
              Session(rehydrate(Cur)) = Session(Cur))
    /\ [][last'.act = "PageLoad" =>
              UNCHANGED <<user, token, isAuthenticated>>]_vars

\* a page load that restored an authenticated session
WitC15 ==
    /\ last.act = "PageLoad"
    /\ isAuthenticated
    /\ user = "u2"
    /\ token = "xyz"
    /\ authToken = "xyz"

\* C16: in the browser a successful login stores its token t; every request
\* sent while t is stored carries "Bearer t"; and the stored token changes
\* only by a setAuth, a logout or a forced logout.
ThmC16 ==
    /\ []((isBrowser /\ LoginSucceeded) => authToken = last.token)
    /\ []((isBrowser /\ last.act = "Send" /\ authToken # Absent) =>
              last.hdr = "Bearer " \o authToken)
    /\ [][authToken' # authToken =>
              \/ LoginSucceeded'
              \/ LogoutSettled'
              \/ last'.act = "HeaderLogout"
              \/ Forced401']_vars

\* a query sent by an authenticated session carrying its token
WitC16 ==
    /\ last.act = "Send"
    /\ last.kind = "query"
    /\ isAuthenticated
    /\ token = "abc"
    /\ last.hdr = "Bearer abc"

\* C17: outside the browser durable storage is never written and no
\* navigation is issued; requests go out without a header, a failure (401
\* included) only reaches the caller, and setAuth / logout act on memory.
InvC17 ==
    ~isBrowser =>
        /\ authToken = Absent
        /\ snapshot = NoSnapshot
        /\ location = HomePath
        /\ last.navs = 0
        /\ last.act = "Send" => last.hdr = NoHeader
        /\ (last.act = "Settle" /\ last.outcome # StatusOk) =>
               (last.state = "rejected" /\ last.error = last.outcome)
        /\ (last.act = "Settle" /\ last.outcome = StatusUnauthorized
               /\ last.kind # "logout") => isAuthenticated = last.preAuth
        /\ LoginSucceeded =>
               (user = last.user /\ token = last.token /\ isAuthenticated)
        /\ LogoutSettled =>
               (user = Absent /\ token = Absent /\ ~isAuthenticated)

\* outside the browser, a 401 answering a query of a session that setAuth
\* put in memory
WitC17 ==
    /\ ~isBrowser
    /\ last.act = "Settle"
    /\ last.kind = "query"
    /\ last.outcome = StatusUnauthorized
    /\ isAuthenticated
    /\ token # Absent

\* a request settled with an error that is not a 401 response
OtherFailure ==
    /\ last.act = "Settle"
    /\ last.outcome \notin {StatusOk, StatusUnauthorized}

\* C18: for an error status other than 401 and for a transport error the
\* gateway changes nothing and only rejects with the error: no navigation,
\* and (the logout hook's own onError apart) the credential store, Session
\* State and location are as before.
ThmC18 ==
    /\ [](\A error \in Outcomes \ {StatusOk, StatusUnauthorized} :
             gateway(Cur, error, NoData) =
                 [S |-> Cur, promise |-> Rejected(error)])
    /\ [](OtherFailure =>
             (last.navs = 0 /\ last.state = "rejected"
                /\ last.error = last.outcome))
    /\ [][(OtherFailure' /\ last'.kind # "logout") =>
              UNCHANGED <<user, token, isAuthenticated, authToken,
                          snapshot, location>>]_vars

\* a query of an authenticated browser session answered with 500, and the
\* token is still stored
WitC18 ==
    /\ OtherFailure
    /\ isBrowser
    /\ last.kind = "query"
    /\ last.outcome = 500
    /\ last.preToken # Absent
    /\ authToken = last.preToken
    /\ location = HomePath

\* C19: sending the request of a login, signup or logout changes neither
\* Session State nor the durable token, the snapshot or the cache; the
\* operation's writes all happen when its request settles.
ThmC19 ==
    [][(last'.act = "Send" /\ last'.kind \in {"login", "signup", "logout"})
          => UNCHANGED <<user, token, isAuthenticated, authToken, snapshot,
                         cache, location>>]_vars

\* a logout request is on its way and the session, the stored token and the
\* cache entries are still there
WitC19 ==
    /\ last.act = "Send"
    /\ last.kind = "logout"
    /\ isBrowser
    /\ isAuthenticated
    /\ authToken # Absent
    /\ cache # {}

\* C20: in the browser every 401, whatever request it answers and whether
\* or not a token was stored or sent, leaves the token key absent and issues
\* one navigation to the login path.
InvC20 ==
    Forced401 =>
        /\ authToken = Absent
        /\ last.navs = 1
        /\ location = LoginPath

\* a login sent without a token, with none stored, answered with 401
WitC20 ==
    /\ Forced401
    /\ last.kind = "login"
    /\ last.hdr = NoHeader
    /\ last.preToken = Absent
    /\ last.navs = 1

\* a logout operation has been started and has not settled yet
LogoutInFlight == \E r \in BagToSet(inflight) : r.kind = "logout"

\* C21: every logout operation that is started eventually ends the local
\* session: Session State unauthenticated and no durable token.
CexC21 == LogoutInFlight ~> (~isAuthenticated /\ authToken = Absent)

\* the number of login, signup and logout requests in flight in bag B
AuthInFlight(B) ==
    BagCardinality([r \in {q \in BagToSet(B) : q.kind # "query"} |-> B[r]])

\* a login, signup or logout operation settled
AuthSettled == last.act = "Settle" /\ last.kind # "query"

\* C22: when the last of several concurrent Auth Operations settles, Session
\* State and the durable token are those written by the setAuth / logout
\* call that ran last (the persisted snapshot is the record of that call).
CexC22 ==
    [][(/\ isBrowser
        /\ AuthSettled
        /\ AuthInFlight(inflight) = 1
        /\ AuthSettled'
        /\ AuthInFlight(inflight') = 0
        /\ snapshot'.exists)
       => /\ user' = snapshot'.user
          /\ token' = snapshot'.token
          /\ isAuthenticated' = snapshot'.isAuthenticated
          /\ authToken' = snapshot'.token]_vars

\* C23: a login or signup that was in flight while a logout completed is
\* not aborted: when its successful response arrives next, the session is
\* authenticated with that response's user and token.
ThmC23 ==
    [][(LogoutSettled /\ LoginSucceeded') =>
          /\ isAuthenticated'
          /\ user' = last'.user
          /\ token' = last'.token
          /\ isBrowser => authToken' = last'.token]_vars

\* a signup sent by an authenticated session (it carried the token) whose
\* response arrived after a logout had ended that session
WitC23 ==
    /\ LoginSucceeded
    /\ last.kind = "signup"
    /\ last.hdr # NoHeader
    /\ ~last.preAuth
    /\ last.preToken = Absent
    /\ isAuthenticated
    /\ token = last.token

\* a login, signup or logout operation was started
AuthSent == last.act = "Send" /\ last.kind # "query"

\* C24: an Auth Operation goes from idle to in flight when it is invoked and
\* from in flight to exactly one of success and failed when it settles; its
\* success handler runs iff it succeeded, its failure handler (only logout
\* has one) iff it failed, and the handler that runs does so once.
ThmC24 ==
    /\ [](AuthSettled =>
            /\ last.state \in {"fulfilled", "rejected"}
            /\ (last.state = "fulfilled") = (last.outcome = StatusOk)
            /\ (last.handler = "onSuccess") = (last.state = "fulfilled")
            /\ (last.handler = "onError") =
                   (last.state = "rejected" /\ last.kind = "logout")
            /\ last.clears = IF last.kind = "logout" THEN 1 ELSE 0)
    /\ [][/\ AuthSent' => AuthInFlight(inflight') = AuthInFlight(inflight) + 1
          /\ AuthSettled' =>
                 AuthInFlight(inflight') = AuthInFlight(inflight) - 1]_vars

\* a logout settled with success while another Auth Operation was in flight
WitC24 ==
    /\ LogoutSettled
    /\ last.state = "fulfilled"
    /\ last.handler = "onSuccess"
    /\ last.clears = 1
    /\ AuthInFlight(inflight) = 1

\* C25: only the gateway's 401 path forces a navigation to the login path:
\* a handler that navigated was a 401 in the browser, the location changes
\* to the login path in no other step, and a logout (by the hook or by the
\* store) that was not answered with 401 ends without navigating.
ThmC25 ==
    /\ [](last.navs # 0 => (Forced401 /\ last.navs = 1))
    /\ []((LogoutSettled /\ last.outcome # StatusUnauthorized) =>
             last.navs = 0)
    /\ []((last.act \in {"Send", "HeaderLogout", "PageLoad"}) =>
             last.navs = 0)
    /\ [][location' # location => (Forced401' /\ location' = LoginPath)]_vars

\* a logout of an authenticated session failed with a server error: the
\* session ended locally and the browser stayed where it was
WitC25 ==
    /\ LogoutSettled
    /\ isBrowser
    /\ last.outcome \notin {StatusOk, StatusUnauthorized}
    /\ last.preAuth
    /\ ~isAuthenticated
    /\ last.navs = 0
    /\ location = HomePath

\* C26: in the browser the auth_token key and the token of the persisted
\* snapshot agree in every state, so a session that a page load restored as
\* authenticated has its token in the credential store.
CexC26 ==
    isBrowser =>
        /\ authToken = snapshot.token
        /\ (last.act = "PageLoad" /\ isAuthenticated) => authToken = token

\* a 401 arrived in the browser for a login, signup or query that had not
\* been sent with the token stored when the 401 arrived: it was sent without
\* a token or with the token of an earlier session
Stale401 ==
    /\ Forced401
    /\ last.kind # "logout"
    /\ last.preToken # Absent
    /\ last.hdr # Bearer(last.preToken)

\* C27 as stated: a 401 answering a request that was not sent with the token
\* currently stored leaves that token in place.
CexC27 == Stale401 => authToken = last.preToken

\* C27 amended: a 401 removes the durable token whatever the request was
\* sent with, the token written by a later login included, and navigates to
\* the login path.
ThmC27 ==
    Stale401 =>
        /\ authToken = Absent
        /\ last.navs = 1
        /\ location = LoginPath

\* a request sent under the session of token "abc" got its 401 after a
\* later login had stored "xyz": "xyz" is gone from the credential store
WitC27 ==
    /\ Stale401
    /\ last.hdr = Bearer("abc")
    /\ last.preToken = "xyz"
    /\ token = "xyz"
    /\ authToken = Absent

\* C28: the session becomes (or stays, with other contents) authenticated
\* only by a successful login or signup response, whose user and token it
\* takes together, or by a page load restoring the persisted snapshot; and
\* the snapshot gets authenticated contents only from such a response. So no
\* failed response and no logout makes the session authenticated, and user
\* and token never come from different responses.
ThmC28 ==
    /\ [][(/\ <<user, token, isAuthenticated>>' #
                  <<user, token, isAuthenticated>>
           /\ isAuthenticated')
          => \/ /\ LoginSucceeded'
                /\ user' = last'.user
                /\ token' = last'.token
             \/ /\ last'.act = "PageLoad"
                /\ snapshot.isAuthenticated
                /\ user' = snapshot.user
                /\ token' = snapshot.token]_vars
    /\ [][(snapshot' # snapshot /\ snapshot'.isAuthenticated)
          => /\ LoginSucceeded'
             /\ snapshot'.user = last'.user
             /\ snapshot'.token = last'.token]_vars

\* user u1 was logged in with token "xyz" when a login answered with
\* (u2, "abc") succeeded: the session holds u2 with "abc"
WitC28 ==
    /\ LoginSucceeded
    /\ last.kind = "login"
    /\ last.preAuth
    /\ last.preToken = "xyz"
    /\ last.user = "u2"
    /\ user = "u2"
    /\ token = "abc"

\* in the states st that an operation went through from state S, memory
\* is not updated before the auth_token key holds the value v: the second
\* state has the key written and memory as it was, and every state whose
\* memory differs from that of S has the key written
DurableFirst(S, st, v) ==
    /\ st[1] = S
    /\ st[2].authToken = v
    /\ Session(st[2]) = Session(S)
    /\ \A i \in 1..Len(st) :
           Session(st[i]) # Session(S) => st[i].authToken = v

\* C29: in the browser, from every reachable state, setAuth writes the
\* auth_token key before it updates the store and logout removes the key
\* before it clears the store: no intermediate state has the new token (or
\* its absence) in memory while the key still holds the old value.
InvC29 ==
    isBrowser =>
        /\ \A u \in Users, t \in Tokens :
               DurableFirst(Cur, setAuth_steps(Cur, u, t), t)
        /\ DurableFirst(Cur, logout_steps(Cur), Absent)

\* a session that a login gave token "xyz", in memory and in the key, on
\* which setAuth with "abc" passes through a state that has "abc" in the key
\* and "xyz" in memory, and logout through one with no key and "xyz" in
\* memory
WitC29 ==
    /\ isBrowser
    /\ LoginSucceeded
    /\ last.token = "xyz"
    /\ isAuthenticated
    /\ token = "xyz"
    /\ authToken = "xyz"
    /\ setAuth_steps(Cur, "u2", "abc")[2].authToken = "abc"
    /\ setAuth_steps(Cur, "u2", "abc")[2].token = "xyz"
    /\ setAuth_steps(Cur, "u2", "abc")[3].token = "abc"
    /\ logout_steps(Cur)[2].authToken = Absent
    /\ logout_steps(Cur)[2].token = "xyz"
    /\ logout_steps(Cur)[3].token = Absent

====
